---- MODULE Spec2Model ----
(***************************************************************************)
(* Model of the persistent-worker print server (src/print-server.js,       *)
(* lines 1-375): the worker supervisor (startWorker), the job submission   *)
(* (sendToWorker), the orchestrator (printReceipt) and the HTTP handlers   *)
(* /api/print and /api/reset, on top of Node's single-threaded event loop. *)
(*                                                                         *)
(* Execution model.  A JavaScript callback runs to completion: everything  *)
(* between two awaits is one action (btReset and its sleeps use execSync   *)
(* and block the loop).  A settled promise schedules the continuation of   *)
(* the call awaiting it as a microtask; microtasks run before any other    *)
(* event, so every other action is guarded by an empty microtask queue.    *)
(* Worker subprocesses and the operating system run concurrently with the  *)
(* event loop: what a worker writes on its stdout, and its death, reach    *)
(* the callbacks later, as 'data' and 'exit' events, in no fixed order.    *)
(* An exception thrown inside a timer or event callback is uncaught and    *)
(* ends the server process (this variant installs no handler for it).      *)
(* kill() is modelled as ending the process at once; its 'exit' event is   *)
(* still delivered later by the event loop.                                *)
(***************************************************************************)
EXTENDS Integers, Sequences, FiniteSets, TLC

\* ---------------------------------------------------------------- bounds
\* Number of HTTP requests (print or reset) the model lets in.
MaxCalls == 2
\* Number of faults of the environment in one behaviour: a worker dying on
\* its own, a worker hanging until a timer fires, an ERR line, a reset that
\* fails.
MaxFaults == 2

\* Print requests followed in the variants without a worker.
MaxPortCalls == 2

\* Every print request spawns at most two workers, the boot start one.
MaxWorkers == 2 * MaxCalls + 1
\* Every print request calls sendToWorker at most twice.
MaxJobs == 2 * MaxCalls

Workers == 1..MaxWorkers
Jobs == 1..MaxJobs
\* Call 0 is the boot-time startWorker of the listen callback.
BootCall == 0
Calls == 0..MaxCalls

\* ------------------------------------------------------ program constants
PollRounds == 3
PollsPerRound == 5
SoftTries == 3
FullTries == 2

ErrCmd == "Command failed"
ErrNoDev == "Serial device did not appear after BT reset"
ErrNotAvail == "Serial device not available"
ErrNoStart == "Print worker did not start"
ErrTimeout == "Print timeout"
ErrLine == "ERR"
ErrType == "TypeError: Cannot read properties of null"
ErrTemplate == "Unknown template"
ErrNoDevRepair == "Serial device did not appear after re-pair"
ErrPort == "Port error"
ErrText == "Missing text"
ErrPrint == "Print subprocess failed"
ErrApi == "ElevenLabs API error"

TEMPLATES == {"clawcon-certificate", "plain"}
TemplateInputs == {"plain", "bogus"}

VARIABLES
  printWorker,       \* 0 = null, else the worker the handle refers to
  printWorkerReady,  \* the module-level flag
  wstate,            \* per worker: "none", "booting" (READY not yet printed),
                     \* "running", "deadBoot"/"dead" (exited before/after READY,
                     \* 'exit' event not yet delivered), "reaped"
  killed,            \* per worker: handle.killed
  stdout,            \* per worker: lines written and not yet delivered as 'data'
  stdin,             \* per worker: job lines written and not yet read
  startTimer,        \* per worker: the 20 s timer of the startWorker that spawned it
  startPromise,      \* per worker: promise of the startWorker that spawned it
  spawned,           \* number of workers spawned so far
  faults,            \* number of environment faults so far
  jobs,              \* per sendToWorker call: listener, timer and promise
  njobs,             \* number of sendToWorker calls that attached a listener
  calls,             \* per call (boot, /api/print, /api/reset): position and result
  micro,             \* microtask queue: calls whose awaited promise settled
  crashed,           \* the server process died of an uncaught exception
  window,            \* workers 1..window ran while the last callback blocked
  bt,                \* one run of btReset followed command by command
  status,            \* the last answer of GET /api/status
  port,              \* serialport variant: per /api/print request, its position
  sub,               \* subprocess-per-job variant: requests and keepalive callback
  tts                \* presentation server: one call of generateTTS

server == <<printWorker, printWorkerReady, wstate, killed, stdout,
            stdin, startTimer, startPromise, spawned, faults, jobs,
            njobs, calls, micro, crashed, window>>

\* What the actions of the persistent-worker server leave alone.
others == <<bt, status, port, sub, tts>>

vars == <<server, others>>

\* ------------------------------------------------------------ environment
\* What the operating system answers during one btReset: the commands that
\* fail, the number of deviceExists() polls answered "absent" before the
\* node appears, and whether the node vanishes again right after the reset.
EnvOk == [fail |-> {}, appear |-> 0, vanish |-> FALSE]
EnvVanish == [fail |-> {}, appear |-> 0, vanish |-> TRUE]
EnvPowerFail == [fail |-> {"power0"}, appear |-> 0, vanish |-> FALSE]
EnvNoDevice == [fail |-> {}, appear |-> PollRounds * PollsPerRound + 1,
                vanish |-> FALSE]
BtEnvs == {EnvOk, EnvVanish, EnvPowerFail, EnvNoDevice}

\* ------------------------------------------------------------------ state
NoJob == [c |-> 0, w |-> 0, listening |-> FALSE, timer |-> FALSE, st |-> "none",
          err |-> "", wReady |-> FALSE, okBy |-> 0]

NoCall == [kind |-> "none", pc |-> "idle", w |-> 0, j |-> 0, res |-> "",
           firstErr |-> "", fromReady |-> FALSE, fromAbsent |-> FALSE,
           resets |-> 0, spawns |-> 0, submits |-> 0, recov |-> 0,
           fastPaths |-> 0, noDev |-> 0, devOk |-> 0]

\* The whole state as one record, so that the statements of a callback can
\* be composed; thrown is the exception in flight, ret the value returned.
Cur ==
  [pw |-> printWorker, rdy |-> printWorkerReady, wst |-> wstate,
   kil |-> killed, out |-> stdout, inq |-> stdin,
   tmr |-> startTimer, sp |-> startPromise, n |-> spawned, faults |-> faults,
   jobs |-> jobs, nj |-> njobs, calls |-> calls, micro |-> micro,
   crashed |-> crashed, window |-> window, thrown |-> "", ret |-> 0]

Set(s) ==
  /\ s.faults <= MaxFaults
  /\ printWorker' = s.pw
  /\ printWorkerReady' = s.rdy
  /\ wstate' = s.wst
  /\ killed' = s.kil
  /\ stdout' = s.out
  /\ stdin' = s.inq
  /\ startTimer' = s.tmr
  /\ startPromise' = s.sp
  /\ spawned' = s.n
  /\ faults' = s.faults
  /\ jobs' = s.jobs
  /\ njobs' = s.nj
  /\ calls' = s.calls
  /\ micro' = s.micro
  /\ crashed' = s.crashed
  /\ window' = s.window
  /\ UNCHANGED others

Fault(s) == [s EXCEPT !.faults = @ + 1]

Alive(st) == st \in {"booting", "running"}
Dead(st) == st \in {"deadBoot", "dead"}
\* The process has printed its READY line.
ReadyEmitted(st) == st \in {"running", "dead"}
\* The process exits: what is left on its stdin is never read.
Exit(s, w) ==
  IF ~Alive(s.wst[w]) THEN s
  ELSE [s EXCEPT !.wst[w] = IF @ = "booting" THEN "deadBoot" ELSE "dead",
                 !.inq[w] = <<>>]

\* No run of btReset is being followed.
BtIdle == [env |-> [fail |-> {}, appear |-> 0, vanish |-> FALSE], pc |-> "idle",
           attempt |-> 0, i |-> 0, polls |-> 0, ops |-> <<>>, res |-> ""]

InitServer ==
  /\ printWorker = 0
  /\ printWorkerReady = FALSE
  /\ wstate = [w \in Workers |-> "none"]
  /\ killed = [w \in Workers |-> FALSE]
  /\ stdout = [w \in Workers |-> <<>>]
  /\ stdin = [w \in Workers |-> <<>>]
  /\ startTimer = [w \in Workers |-> FALSE]
  /\ startPromise = [w \in Workers |-> "none"]
  /\ spawned = 0
  /\ faults = 0
  /\ jobs = [j \in Jobs |-> NoJob]
  /\ njobs = 0
  /\ calls = [c \in Calls |-> NoCall]
  /\ micro = <<>>
  /\ crashed = FALSE
  /\ window = 0

\* No status query has been answered.  query and exists are what the
\* operating system answered to the last one: blueutil --is-connected ("1",
\* "0", or "fail" when the command fails or times out) and fs.existsSync.
NoStatus == [connected |-> FALSE, device |-> FALSE, worker |-> FALSE,
             answered |-> FALSE, query |-> "", exists |-> FALSE]

\* A request of the serialport variant that has not arrived.
NoPortCall == [pc |-> "idle", template |-> "", ops |-> <<>>, res |-> ""]
PortCalls == 1..MaxPortCalls
PortIdle == [c \in PortCalls |-> NoPortCall]

\* The subprocess-per-job server before any request and keepalive tick.
NoSubCall == [pc |-> "idle", template |-> "", hasText |-> FALSE, i |-> 0,
              res |-> ""]
SubIdle == [calls |-> [c \in PortCalls |-> NoSubCall], keep |-> "idle",
            kops |-> <<>>, kans |-> "", kerr |-> "", kdead |-> FALSE]
NoAlignment == [characters |-> <<>>, character_start_times_seconds |-> <<>>,
                character_end_times_seconds |-> <<>>]
TtsIdle == [phase |-> "idle", alignment |-> NoAlignment, words |-> <<>>,
            error |-> ""]

Init ==
  /\ InitServer
  /\ bt = BtIdle
  /\ status = NoStatus
  /\ port = PortIdle
  /\ sub = SubIdle
  /\ tts = TtsIdle

\* ------------------------------------------------------------- btReset
\* deviceExists() right after a btReset that returned normally.
DeviceExists(env) == ~env.vanish

\* deviceExists() at the k-th poll of a reset (k counted from 0).
DeviceAt(env, k) == k >= env.appear

\* The polling loop: PollRounds rounds of PollsPerRound polls, each round
\* that finds nothing followed by a disconnect (errors ignored) and a
\* connect (errors thrown), then one last check.
RECURSIVE PollLoop(_, _)
PollLoop(env, attempt) ==
  IF attempt = PollRounds
  THEN IF DeviceAt(env, PollRounds * PollsPerRound) THEN "" ELSE ErrNoDev
  ELSE IF \E i \in 0..(PollsPerRound - 1) : DeviceAt(env, attempt * PollsPerRound + i)
       THEN ""
       ELSE IF "reconnect" \in env.fail THEN ErrCmd
            ELSE PollLoop(env, attempt + 1)

\* The error btReset throws under env, "" when it returns normally.
BtResetResult(env) ==
  IF env.fail \cap {"power0", "power1", "pair", "connect"} # {}
  THEN ErrCmd
  ELSE PollLoop(env, 0)

BtReset(s, c, env) ==
  LET r == BtResetResult(env) IN
  [s EXCEPT !.calls[c].resets = @ + 1, !.thrown = r,
            !.calls[c].noDev = IF r = ErrNoDev THEN @ + 1 ELSE @,
            !.faults = IF r = "" THEN @ ELSE @ + 1,
            !.window = s.n]

\* ------------------------------------------------- btReset, step by step
\* One run of btReset under an environment fixed at its start: the commands
\* that fail and the number of deviceExists() polls answered "absent".
\* "disconnect2" and "reconnect" are the disconnect and connect of the
\* polling loop; a failing disconnect fails at both places.
BtCommandNames ==
  {"disconnect", "unpair", "power0", "power1", "pair", "connect", "reconnect"}

\* The commands issued inside try { } catch {}.
BtSwallowed == {"disconnect", "unpair"}

\* Device node present at once, during the first, second or third round,
\* at the last check only, never.
AppearChoices ==
  {0, 2, PollsPerRound + 2, 2 * PollsPerRound + 2, PollRounds * PollsPerRound,
   PollRounds * PollsPerRound + 1}

ResetEnvs ==
  {[fail |-> f, appear |-> a, vanish |-> FALSE] :
     f \in SUBSET BtCommandNames, a \in AppearChoices}

ResetInit ==
  /\ InitServer
  /\ status = NoStatus
  /\ port = PortIdle
  /\ sub = SubIdle
  /\ tts = TtsIdle
  /\ \E env \in ResetEnvs : bt = [BtIdle EXCEPT !.env = env, !.pc = "disconnect"]

BtCommandOf(pc) == IF pc = "disconnect2" THEN "disconnect" ELSE pc

\* A polling loop that gives up after one disconnect/connect cycle and one
\* more round.
BtAfter_OneExtraCycle(b) ==
  CASE b.pc = "disconnect" -> [b EXCEPT !.pc = "unpair"]
    [] b.pc = "unpair" -> [b EXCEPT !.pc = "power0"]
    [] b.pc = "power0" -> [b EXCEPT !.pc = "power1"]
    [] b.pc = "power1" -> [b EXCEPT !.pc = "pair"]
    [] b.pc = "pair" -> [b EXCEPT !.pc = "connect"]
    [] b.pc = "connect" -> [b EXCEPT !.pc = "poll"]
    [] b.pc = "disconnect2" ->
         [b EXCEPT !.pc = IF b.attempt = 0 THEN "reconnect" ELSE "final"]
    [] b.pc = "reconnect" -> [b EXCEPT !.attempt = @ + 1, !.i = 0, !.pc = "poll"]

\* The statement after a command that did not throw.
BtAfter(b) ==
  CASE b.pc = "disconnect" -> [b EXCEPT !.pc = "unpair"]
    [] b.pc = "unpair" -> [b EXCEPT !.pc = "power0"]
    [] b.pc = "power0" -> [b EXCEPT !.pc = "power1"]
    [] b.pc = "power1" -> [b EXCEPT !.pc = "pair"]
    [] b.pc = "pair" -> [b EXCEPT !.pc = "connect"]
    [] b.pc = "connect" -> [b EXCEPT !.pc = "poll"]
    [] b.pc = "disconnect2" -> [b EXCEPT !.pc = "reconnect"]
    [] b.pc = "reconnect" ->
         [b EXCEPT !.attempt = @ + 1, !.i = 0,
                   !.pc = IF b.attempt + 1 < PollRounds THEN "poll" ELSE "final"]

\* A btReset with every command inside try { } catch {}.
BtResetCommand_SwallowAll ==
  /\ bt.pc \in BtCommandNames \cup {"disconnect2"}
  /\ bt' = BtAfter([bt EXCEPT !.ops = Append(@, bt.pc)])
  /\ UNCHANGED <<server, status, port, sub, tts>>

\* One execSync of a blueutil command: a failure is ignored inside
\* try { } catch {} and thrown out of btReset elsewhere.
BtResetCommand ==
  /\ bt.pc \in BtCommandNames \cup {"disconnect2"}
  /\ LET cmd == BtCommandOf(bt.pc)
         b == [bt EXCEPT !.ops = Append(@, bt.pc)]
     IN bt' = IF cmd \in bt.env.fail /\ cmd \notin BtSwallowed
              THEN [b EXCEPT !.pc = "thrown", !.res = ErrCmd]
              ELSE BtAfter(b)
  /\ UNCHANGED <<server, status, port, sub, tts>>

\* One turn of the inner loop: deviceExists(), return or sleep.
BtResetPoll ==
  /\ bt.pc = "poll"
  /\ bt' = IF DeviceAt(bt.env, bt.polls)
            THEN [bt EXCEPT !.pc = "returned", !.polls = @ + 1]
            ELSE IF bt.i + 1 < PollsPerRound
                 THEN [bt EXCEPT !.i = @ + 1, !.polls = @ + 1]
                 ELSE [bt EXCEPT !.i = 0, !.polls = @ + 1, !.pc = "disconnect2"]
  /\ UNCHANGED <<server, status, port, sub, tts>>

\* A btReset that returns after the loop without the last check.
BtResetFinal_NoCheck ==
  /\ bt.pc = "final"
  /\ bt' = [bt EXCEPT !.pc = "returned"]
  /\ UNCHANGED <<server, status, port, sub, tts>>

\* The check after the loop.
BtResetFinal ==
  /\ bt.pc = "final"
  /\ bt' = IF DeviceAt(bt.env, bt.polls)
            THEN [bt EXCEPT !.pc = "returned"]
            ELSE [bt EXCEPT !.pc = "thrown", !.res = ErrNoDev]
  /\ UNCHANGED <<server, status, port, sub, tts>>

ResetNext == BtResetCommand \/ BtResetPoll \/ BtResetFinal

ResetSpec == ResetInit /\ [][ResetNext]_vars

\* if (printWorker) { printWorker.kill(); printWorker = null; }
KillCur(s) ==
  IF s.pw = 0 THEN s
  ELSE [Exit(s, s.pw) EXCEPT !.kil[s.pw] = TRUE, !.pw = 0]

\* ------------------------------------------------------------ startWorker
SpawnWorker(s, c) ==
  LET w == s.n + 1 IN
  [s EXCEPT !.pw = w, !.rdy = FALSE, !.n = w,
            !.wst[w] = "booting", !.tmr[w] = TRUE, !.sp[w] = "pending",
            !.calls[c].spawns = @ + 1, !.ret = w, !.thrown = ""]

\* A startWorker that resets only when the device node is missing.
StartWorker_SkipReset(s, c, env) ==
  IF s.pw # 0 /\ ~s.kil[s.pw] /\ s.rdy
  THEN [s EXCEPT !.ret = 0, !.thrown = "", !.calls[c].fastPaths = @ + 1]
  ELSE LET s1 == KillCur(s)
           s2 == IF DeviceExists(env) THEN [s1 EXCEPT !.window = s1.n]
                 ELSE BtReset(s1, c, env)
       IN IF s2.thrown # "" THEN s2
          ELSE IF ~DeviceExists(env) THEN Fault([s2 EXCEPT !.thrown = ErrNotAvail])
          ELSE SpawnWorker([s2 EXCEPT !.calls[c].devOk = @ + 1], c)

\* A startWorker without the test of line 107.
StartWorker_NoFastPath(s, c, env) ==
  LET s1 == KillCur(s)
      s2 == BtReset(s1, c, env)
  IN IF s2.thrown # "" THEN s2
     ELSE IF ~DeviceExists(env) THEN Fault([s2 EXCEPT !.thrown = ErrNotAvail])
     ELSE SpawnWorker([s2 EXCEPT !.calls[c].devOk = @ + 1], c)

\* A startWorker without the test of line 115.
StartWorker_NoDeviceCheck(s, c, env) ==
  IF s.pw # 0 /\ ~s.kil[s.pw] /\ s.rdy
  THEN [s EXCEPT !.ret = 0, !.thrown = "", !.calls[c].fastPaths = @ + 1]
  ELSE LET s1 == KillCur(s)
           s2 == BtReset(s1, c, env)
       IN IF s2.thrown # "" THEN s2 ELSE SpawnWorker(s2, c)

\* startWorker up to the promise it returns: the fast path, or kill, btReset,
\* the device check and the spawn.
\* ret = 0: the promise returned is already resolved (Ready fast path);
\* ret = w: the promise settles with worker w's READY or startup timer;
\* thrown # "": the call threw synchronously.
StartWorker(s, c, env) ==
  IF s.pw # 0 /\ ~s.kil[s.pw] /\ s.rdy
  THEN [s EXCEPT !.ret = 0, !.thrown = "", !.calls[c].fastPaths = @ + 1]
  ELSE LET s1 == KillCur(s)
           s2 == BtReset(s1, c, env)
       IN IF s2.thrown # "" THEN s2
          ELSE IF ~DeviceExists(env) THEN Fault([s2 EXCEPT !.thrown = ErrNotAvail])
          ELSE SpawnWorker([s2 EXCEPT !.calls[c].devOk = @ + 1], c)

\* ----------------------------------------------------------- sendToWorker
\* The promise executor: the timer is armed, then printWorker.stdout is
\* dereferenced (a null handle throws, which rejects the promise), the
\* listener is attached and the job line written to the worker's stdin.
SendToWorker(s, c) ==
  IF s.pw = 0
  THEN [s EXCEPT !.calls[c].submits = @ + 1, !.calls[c].j = 0,
                 !.thrown = ErrType]
  ELSE LET j == s.nj + 1
           w == s.pw
       IN [s EXCEPT !.nj = j,
                    !.jobs[j] = [c |-> c, w |-> w, listening |-> TRUE,
                                 timer |-> TRUE, st |-> "pending", err |-> "",
                                 wReady |-> ReadyEmitted(s.wst[w]), okBy |-> 0],
                    !.inq[w] = IF Alive(s.wst[w]) THEN Append(@, j) ELSE @,
                    !.calls[c].submits = @ + 1,
                    !.calls[c].j = j,
                    !.thrown = ""]

\* ------------------------------------------------------------ printReceipt
Done(s, c, res) ==
  [s EXCEPT !.calls[c].pc = "done", !.calls[c].res = res, !.thrown = ""]

\* await startWorker(): an already resolved promise resumes the call in the
\* next microtask, a pending one when worker s.ret's READY or timer settles it.
AwaitStart(s, c, pc) ==
  [s EXCEPT !.calls[c].pc = pc, !.calls[c].w = s.ret,
            !.micro = IF s.ret = 0 THEN Append(@, c) ELSE @]

\* The test of the Ready fast path, which asks the environment nothing.
Ready(s) == s.pw # 0 /\ ~s.kil[s.pw] /\ s.rdy

\* printReceipt rejects with what was thrown.
Reject(s, c) == Set(Done(s, c, s.thrown))

\* await startWorker() outside a try block: what startWorker throws rejects
\* the call, otherwise the call waits at pc.
AwaitStartWorker(s, c, pc) ==
  IF Ready(s) THEN Set(AwaitStart(StartWorker(s, c, EnvOk), c, pc))
  ELSE \E env \in BtEnvs :
         LET s1 == StartWorker(s, c, env) IN
         IF s1.thrown # "" THEN Reject(s1, c) ELSE Set(AwaitStart(s1, c, pc))

\* The catch block of printReceipt: discard the worker, btReset, startWorker
\* again; what it throws rejects printReceipt.
Recovery(s, c) ==
  LET s0 == [s EXCEPT !.calls[c].firstErr = s.thrown, !.calls[c].recov = @ + 1,
                      !.thrown = ""]
      s1 == KillCur(s0)
  IN \E env \in BtEnvs :
       LET s2 == BtReset(s1, c, env) IN
       IF s2.thrown # "" THEN Reject(s2, c)
       ELSE AwaitStartWorker(s2, c, "start2")

\* A first attempt outside any try block.
TryStartWorker_NoCatch(s, c) == AwaitStartWorker(s, c, "start1")

\* await startWorker() inside the try block: what startWorker throws is
\* caught, otherwise the call waits at "start1".
TryStartWorker(s, c) ==
  IF Ready(s) THEN Set(AwaitStart(StartWorker(s, c, EnvOk), c, "start1"))
  ELSE \E env \in BtEnvs :
         LET s1 == StartWorker(s, c, env) IN
         IF s1.thrown # "" THEN Recovery(s1, c)
         ELSE Set(AwaitStart(s1, c, "start1"))

\* A second attempt that is retried like the first.
SecondAttemptFailed_Retry(s, c) == Recovery(s, c)

\* What the second attempt (the statements of the catch block) throws is not
\* caught: it rejects printReceipt.
SecondAttemptFailed(s, c) == Reject(s, c)

\* The call awaiting the start promise of worker w / the promise of job j.
StartAwaiter(s, w) ==
  CHOOSE c \in Calls : s.calls[c].w = w
                       /\ s.calls[c].pc \in {"start1", "start2", "rstart", "bstart"}

SettleStart(s, w, how) ==
  IF s.sp[w] # "pending" THEN s
  ELSE [s EXCEPT !.sp[w] = how, !.micro = Append(@, StartAwaiter(s, w))]

SettleJob(s, j, how, err, by) ==
  IF s.jobs[j].st # "pending" THEN s
  ELSE [s EXCEPT !.jobs[j].st = how, !.jobs[j].err = err, !.jobs[j].okBy = by,
                 !.micro = Append(@, s.jobs[j].c)]

\* ------------------------------------------------------- request handlers
Listening == calls[BootCall].pc # "idle"

\* The promise of job j has been consumed by its await.
Used(s, j) ==
  IF j = 0 THEN s
  ELSE [s EXCEPT !.jobs[j] = [NoJob EXCEPT !.w = s.jobs[j].w, !.st = "used",
                                           !.listening = s.jobs[j].listening,
                                           !.timer = s.jobs[j].timer]]

\* The end of a handler: res.writeHead/res.end with {ok: true} or {error},
\* for the boot start the log line.  The call's record is then dropped.
Respond(c) ==
  /\ ~crashed
  /\ calls[c].pc = "done"
  /\ Set([Used(Cur, calls[c].j) EXCEPT !.calls[c] = [NoCall EXCEPT !.pc = "closed"]])

\* Requests are numbered in the order they arrive.
NextCall(c) ==
  /\ c # BootCall
  /\ calls[c].pc = "idle"
  /\ \A d \in 1..(c - 1) : calls[d].pc # "idle"

\* No callback is running: no continuation is queued and no handler is about
\* to write its response.
CanRun == ~crashed /\ micro = <<>> /\ \A c \in Calls : calls[c].pc # "done"

\* server.listen callback: startWorker().then(...).catch(...).  A synchronous
\* throw of startWorker is not a rejected promise: it is uncaught.
Boot ==
  /\ CanRun
  /\ ~Listening
  /\ LET s0 == [Cur EXCEPT !.calls[BootCall].kind = "boot", !.window = 0] IN
     \E env \in BtEnvs :
       LET s1 == StartWorker(s0, BootCall, env) IN
       IF s1.thrown # ""
       THEN Set([Done(s1, BootCall, s1.thrown) EXCEPT !.crashed = TRUE])
       ELSE Set(AwaitStart(s1, BootCall, "bstart"))

\* POST /api/print up to the first await of printReceipt.
PrintRequest(c, template) ==
  /\ CanRun
  /\ Listening
  /\ NextCall(c)
  /\ LET s0 == [Cur EXCEPT !.window = 0,
                           !.calls[c].kind = "print",
                           !.calls[c].fromReady = Ready(Cur),
                           !.calls[c].fromAbsent =
                              (printWorker = 0 /\ ~printWorkerReady)]
     IN IF template \notin TEMPLATES
        THEN Set(Done(s0, c, ErrTemplate))
        ELSE TryStartWorker(s0, c)

\* POST /api/reset up to its await.
ResetRequest(c) ==
  /\ CanRun
  /\ Listening
  /\ NextCall(c)
  /\ LET s0 == [Cur EXCEPT !.calls[c].kind = "reset", !.window = 0]
         s1 == KillCur(s0)
     IN \E env \in BtEnvs :
          LET s2 == BtReset(s1, c, env) IN
          IF s2.thrown # "" THEN Reject(s2, c)
          ELSE AwaitStartWorker(s2, c, "rstart")

\* ------------------------------------------------------------- microtasks
StartOutcome(s, c) ==
  IF s.calls[c].w = 0 THEN "resolved" ELSE s.sp[s.calls[c].w]

\* The continuation of call c after the promise it awaits has settled.
Continue(s, c) ==
  LET pc == s.calls[c].pc
      j == s.calls[c].j
      snd == SendToWorker(s, c)
      job == [Used(s, j) EXCEPT !.thrown = s.jobs[j].err]
  IN CASE pc = "start1" ->
            IF StartOutcome(s, c) # "resolved"
            THEN Recovery([s EXCEPT !.thrown = ErrNoStart], c)
            ELSE IF snd.thrown # "" THEN Recovery(snd, c)
            ELSE Set([snd EXCEPT !.calls[c].pc = "send1"])
       [] pc = "send1" ->
            IF s.jobs[j].st = "ok" THEN Set(Done(job, c, "ok"))
            ELSE Recovery(job, c)
       [] pc = "start2" ->
            IF StartOutcome(s, c) # "resolved"
            THEN SecondAttemptFailed([s EXCEPT !.thrown = ErrNoStart], c)
            ELSE IF snd.thrown # "" THEN SecondAttemptFailed(snd, c)
            ELSE Set([snd EXCEPT !.calls[c].pc = "send2"])
       [] pc = "send2" ->
            IF s.jobs[j].st = "ok" THEN Set(Done(job, c, "ok"))
            ELSE SecondAttemptFailed(job, c)
       [] pc \in {"rstart", "bstart"} ->
            IF StartOutcome(s, c) = "resolved" THEN Set(Done(s, c, "ok"))
            ELSE Reject([s EXCEPT !.thrown = ErrNoStart], c)

Resume(c) ==
  /\ ~crashed
  /\ \A d \in Calls : calls[d].pc # "done"
  /\ micro # <<>>
  /\ c = Head(micro)
  /\ Continue([Cur EXCEPT !.micro = Tail(@)], c)

\* ------------------------------------------------------- event callbacks
\* No 'data' or 'exit' event is waiting for the event loop.
Idle == \A w \in Workers : stdout[w] = <<>> /\ ~Dead(wstate[w])

\* Time has passed for worker w and its timers.  A callback takes
\* milliseconds, a step of the worker script a second or more (time.sleep)
\* and the timers 10 s and 20 s: they advance while the loop has nothing to
\* deliver, or while a callback blocked it in btReset (7 s of sleeps at
\* least), which only workers spawned before that callback lived through.
Elapsed(w) == Idle \/ w <= window

\* stdout 'data' handler installed by startWorker for the worker it spawned.
OnReady(s, w, line) ==
  IF line.t = "READY" /\ ~s.rdy
  THEN SettleStart([s EXCEPT !.rdy = TRUE, !.tmr[w] = FALSE], w, "resolved")
  ELSE s

\* onData of sendToWorker for job j.
OnData(s, j, line) ==
  IF s.crashed \/ line.t = "READY" THEN s
  ELSE LET s1 == [s EXCEPT !.jobs[j].timer = FALSE] IN
       IF s1.pw = 0 THEN [s1 EXCEPT !.crashed = TRUE]
       ELSE LET s2 == IF s1.pw = s1.jobs[j].w
                      THEN [s1 EXCEPT !.jobs[j].listening = FALSE] ELSE s1
            IN IF line.t = "OK" THEN SettleJob(s2, j, "ok", "", line.j)
               ELSE SettleJob(s2, j, "err", ErrLine, line.j)

\* emit('data'): the listeners attached to w's stdout when the line arrives,
\* in the order they were attached.
RECURSIVE EmitData(_, _, _, _, _)
EmitData(s, w, line, before, j) ==
  IF j > MaxJobs THEN s
  ELSE IF before.jobs[j].listening /\ before.jobs[j].w = w
       THEN EmitData(OnData(s, j, line), w, line, before, j + 1)
       ELSE EmitData(s, w, line, before, j + 1)

DeliverData(w) ==
  /\ CanRun
  /\ stdout[w] # <<>>
  /\ LET line == Head(stdout[w])
         s0 == [Cur EXCEPT !.out[w] = Tail(@), !.window = 0]
         s1 == OnReady(s0, w, line)
     IN Set(EmitData(s1, w, line, s1, 1))

\* An 'exit' handler that only logs.
DeliverExit_NoClear(w) ==
  /\ CanRun
  /\ Dead(wstate[w])
  /\ Set([Cur EXCEPT !.wst[w] = "reaped", !.window = 0])

\* printWorker.on('exit', ...) of the startWorker that spawned w.
DeliverExit(w) ==
  /\ CanRun
  /\ Dead(wstate[w])
  /\ Set([Cur EXCEPT !.wst[w] = "reaped", !.pw = 0, !.rdy = FALSE, !.window = 0])

\* The 20 s timer of the startWorker that spawned w.
StartupTimeout(w) ==
  /\ CanRun
  /\ Elapsed(w)
  /\ startTimer[w]
  /\ LET s0 == IF wstate[w] = "booting"
               THEN Fault([Cur EXCEPT !.tmr[w] = FALSE])
               ELSE [Cur EXCEPT !.tmr[w] = FALSE] IN
     IF s0.rdy THEN Set(s0)
     ELSE IF s0.pw = 0 THEN Set([s0 EXCEPT !.crashed = TRUE])
     ELSE Set(SettleStart(KillCur(s0), w, "rejected"))

\* The 10 s timer of sendToWorker for job j.
JobTimeout(j) ==
  /\ CanRun
  /\ Elapsed(jobs[j].w)
  /\ jobs[j].timer
  /\ LET s0 == IF Alive(wstate[jobs[j].w]) THEN Fault(Cur) ELSE Cur IN
     Set(SettleJob([s0 EXCEPT !.jobs[j].timer = FALSE], j, "err", ErrTimeout, 0))

\* ------------------------------------------------------ the worker script
Line(t, j) == [t |-> t, j |-> j]

WorkerReady(w) ==
  /\ CanRun
  /\ Elapsed(w)
  /\ wstate[w] = "booting"
  /\ Set([Cur EXCEPT !.wst[w] = "running",
                     !.out[w] = Append(@, Line("READY", 0))])

WorkerAck(w, t) ==
  /\ CanRun
  /\ Elapsed(w)
  /\ wstate[w] = "running"
  /\ stdin[w] # <<>>
  /\ LET s0 == IF t = "ERR" THEN Fault(Cur) ELSE Cur IN
     Set([s0 EXCEPT !.inq[w] = Tail(@),
                    !.out[w] = Append(@, Line(t, Head(stdin[w])))])

WorkerDie(w) ==
  /\ CanRun
  /\ Elapsed(w)
  /\ Alive(wstate[w])
  /\ faults < MaxFaults
  /\ Set(Fault(Exit(Cur, w)))

\* ------------------------------------------------------------------ spec
Next ==
  \/ Boot
  \/ \E c \in Calls, t \in TemplateInputs : PrintRequest(c, t)
  \/ \E c \in Calls : ResetRequest(c)
  \/ \E c \in Calls : Resume(c)
  \/ \E c \in Calls : Respond(c)
  \/ \E w \in Workers : DeliverData(w)
  \/ \E w \in Workers : DeliverExit(w)
  \/ \E w \in Workers : StartupTimeout(w)
  \/ \E j \in Jobs : JobTimeout(j)
  \/ \E w \in Workers : WorkerReady(w)
  \/ \E w \in Workers, t \in {"OK", "ERR"} : WorkerAck(w, t)
  \/ \E w \in Workers : WorkerDie(w)

Spec == Init /\ [][Next]_vars


\* The same server used as section 5 of the specification asks: the caller
\* serializes its requests, each one sent when no call (the boot-time start
\* included) is in flight.
Quiet == \A c \in Calls : calls[c].pc \in {"idle", "closed"}

SerialNext ==
  \/ Boot
  \/ \E c \in Calls, t \in TemplateInputs : Quiet /\ PrintRequest(c, t)
  \/ \E c \in Calls : Quiet /\ ResetRequest(c)
  \/ \E c \in Calls : Resume(c)
  \/ \E c \in Calls : Respond(c)
  \/ \E w \in Workers : DeliverData(w)
  \/ \E w \in Workers : DeliverExit(w)
  \/ \E w \in Workers : StartupTimeout(w)
  \/ \E j \in Jobs : JobTimeout(j)
  \/ \E w \in Workers : WorkerReady(w)
  \/ \E w \in Workers, t \in {"OK", "ERR"} : WorkerAck(w, t)
  \/ \E w \in Workers : WorkerDie(w)

SerialSpec == Init /\ [][SerialNext]_vars

\* ------------------------------------------------------- GET /api/status
\* A status handler that also clears the flag when the device node is gone.
StatusRequest_SyncsFlag ==
  /\ CanRun
  /\ Listening
  /\ \E query \in {"1", "0", "fail"}, exists \in BOOLEAN :
       /\ status' = [connected |-> query = "1", device |-> exists,
                     worker |-> printWorkerReady, answered |-> TRUE,
                     query |-> query, exists |-> exists]
       /\ printWorkerReady' = (printWorkerReady /\ exists)
       /\ window' = 0
  /\ UNCHANGED <<printWorker, wstate, killed, stdout, stdin,
                 startTimer, startPromise, spawned, faults, jobs, njobs, calls,
                 micro, crashed, bt, port, sub, tts>>

\* The handler of GET /api/status, one synchronous callback:
\* isBluetoothConnected() ("1", anything else or a failed command),
\* deviceExists(), the flag, then the response.
StatusRequest ==
  /\ CanRun
  /\ Listening
  /\ \E query \in {"1", "0", "fail"}, exists \in BOOLEAN :
       /\ status' = [connected |-> query = "1", device |-> exists,
                     worker |-> printWorkerReady, answered |-> TRUE,
                     query |-> query, exists |-> exists]
       /\ window' = 0
  /\ UNCHANGED <<printWorker, printWorkerReady, wstate, killed, stdout, stdin,
                 startTimer, startPromise, spawned, faults, jobs, njobs, calls,
                 micro, crashed, bt, port, sub, tts>>

StatusNext == SerialNext \/ StatusRequest

StatusSpec == Init /\ [][StatusNext]_vars

\* ================================================================ claims
LiveWorkers == {w \in Workers : Alive(wstate[w])}
Requests == Calls \ {BootCall}
Pending(c) == calls[c].pc \in {"start1", "send1", "start2", "send2", "rstart", "bstart"}

\* C1: at most one worker subprocess is alive at any instant, a worker whose
\* handle was dropped from printWorker included.
C1_AtMostOneWorker == Cardinality(LiveWorkers) <= 1

\* C2: a job is written to a worker's stdin only if that worker process has
\* already printed its READY line.
C2_JobOnlyToReadyWorker ==
  \A j \in Jobs : jobs[j].st \in {"pending", "ok", "err"} => jobs[j].wReady

\* C3: sendToWorker resolves for a job only on the OK line the worker
\* printed for that job, never on the OK line of an earlier job.
C3_OkOnlyByOwnAck ==
  \A j \in Jobs : jobs[j].st = "ok" => jobs[j].okBy = j

\* C4: scenario B.  A print call that found the worker Ready and whose first
\* submit timed out recovers and succeeds with two submits, when nothing
\* else goes wrong (the hang is the only fault) and no other request runs.
C4_ScenarioB ==
  \A c \in Requests :
    ( /\ calls[c].kind = "print"
      /\ calls[c].fromReady
      /\ calls[c].firstErr = ErrTimeout
      /\ calls[c].pc = "done"
      /\ faults = 1
      /\ \A d \in Requests \ {c} : calls[d].pc = "idle" )
    => (calls[c].res = "ok" /\ calls[c].submits = 2)

\* C5: startWorker is idempotent.  A printReceipt that calls it while the
\* worker is Ready (handle present, not killed, READY seen) goes on at once:
\* no reset, no kill, no spawn, the supervisor state unchanged.
C5_StartWorkerIdempotent ==
  [][ \A c \in Requests :
        ( /\ calls[c].pc = "idle"
          /\ calls'[c].kind = "print"
          /\ calls'[c].pc # "done"
          /\ Ready(Cur) )
        => ( /\ calls'[c].pc = "start1"
             /\ micro' = <<c>>
             /\ calls'[c].resets = 0
             /\ calls'[c].spawns = 0
             /\ spawned' = spawned
             /\ printWorker' = printWorker
             /\ printWorkerReady'
             /\ wstate' = wstate
             /\ killed' = killed ) ]_vars

\* The boot start and the start of one print call, nothing failing: one
\* spawn in all, and the print call has done no reset.
C5_Witness ==
  \E c \in Requests :
    /\ calls[c].kind = "print"
    /\ calls[c].fromReady
    /\ calls[c].pc = "send1"
    /\ calls[c].fastPaths = 1
    /\ calls[c].resets = 0
    /\ spawned = 1
    /\ faults = 0

\* C6: the 'exit' event of the current worker leaves the supervisor Absent
\* (printWorker null, printWorkerReady false), and a printReceipt that starts
\* in the Absent state has done exactly one reset and one spawn when it
\* submits its job.
C6_ExitThenOneResetOneSpawn ==
  [][ /\ \A w \in Workers :
           (Dead(wstate[w]) /\ wstate'[w] = "reaped" /\ printWorker = w)
           => (printWorker' = 0 /\ ~printWorkerReady')
      /\ \A c \in Requests :
           (calls[c].pc = "start1" /\ calls'[c].pc = "send1" /\ calls[c].fromAbsent)
           => ( /\ calls'[c].resets = 1
                /\ calls'[c].spawns = 1
                /\ calls'[c].submits = 1
                /\ calls'[c].recov = 0 ) ]_vars

\* The only worker so far died on its own after its READY, its exit was
\* delivered, and the next print call has reset, spawned and submitted.
C6_Witness ==
  \E c \in Requests :
    /\ wstate[1] = "reaped"
    /\ ~killed[1]
    /\ calls[c].kind = "print"
    /\ calls[c].fromAbsent
    /\ calls[c].pc = "send1"
    /\ calls[c].w = 2
    /\ calls[c].resets = 1
    /\ calls[c].spawns = 1
    /\ faults = 1

\* C7: printReceipt recovers exactly once.  A failure of the first attempt
\* is always followed by the catch block (kill, reset, start, resubmit), a
\* failure of the second attempt ends the call with that failure's error;
\* a call never does more than one recovery, two submits, two spawns.
C7_OneRecovery ==
  [][ \A c \in Requests : calls'[c].kind = "print" =>
        /\ calls'[c].recov <= 1
        /\ calls'[c].submits <= 2
        /\ calls'[c].spawns <= 2
        /\ calls'[c].resets <= 3
        /\ calls'[c].pc \in {"start2", "send2"} => calls'[c].recov = 1
        /\ (calls'[c].pc = "done" /\ calls'[c].res \notin {"ok", ErrTemplate})
             => calls'[c].recov = 1
        /\ (calls[c].pc \in {"start1", "send1"} /\ calls'[c].pc = "start2")
             => ( /\ calls'[c].spawns = calls[c].spawns + 1
                  /\ calls'[c].resets = calls[c].resets + 2
                  /\ printWorker' = spawned' )
        /\ (calls[c].pc = "send2" /\ calls'[c].pc = "done")
             => ( /\ calls'[c].res = IF jobs[calls[c].j].st = "ok" THEN "ok"
                                     ELSE jobs[calls[c].j].err
                  /\ calls'[c].submits = calls[c].submits
                  /\ calls'[c].resets = calls[c].resets
                  /\ spawned' = spawned )
        /\ (calls[c].pc = "start2" /\ calls'[c].pc = "done")
             => ( /\ calls'[c].res \in {ErrNoStart, ErrType}
                  /\ calls'[c].resets = calls[c].resets
                  /\ spawned' = spawned ) ]_vars

\* Both attempts of a print call have failed, each with its own error, and
\* the call has ended with the second one.
C7_Witness ==
  \E c \in Requests :
    /\ calls[c].kind = "print"
    /\ calls[c].pc = "done"
    /\ calls[c].recov = 1
    /\ calls[c].submits = 2
    /\ calls[c].firstErr = ErrLine
    /\ calls[c].res = ErrTimeout

\* C8: no failure of the supervision ends in an uncaught exception while a
\* printReceipt or /api/reset call is waiting for its result.
C8_FailuresReachCaller ==
  \A c \in Requests : Pending(c) => ~crashed

\* C9: when the startup timer of worker w fires before any READY was seen,
\* that worker is not running afterwards, the handle is null and the start
\* promise is rejected, whether or not w had exited already.
C9_StartupTimeoutRejects ==
  [][ \A w \in Workers :
        (startTimer[w] /\ ~startTimer'[w] /\ ~printWorkerReady /\ ~printWorkerReady')
        => ( /\ startPromise'[w] = "rejected"
             /\ printWorker' = 0
             /\ ~Alive(wstate'[w])
             /\ ~crashed' ) ]_vars

\* C10: a job for which its worker has printed no OK or ERR line (the job
\* line is still unread on the worker's stdin) is never reported successful.
C10_NoAckNoSuccess ==
  \A j \in Jobs, w \in Workers :
    (\E i \in 1..Len(stdin[w]) : stdin[w][i] = j) => jobs[j].st # "ok"

\* ------------------------------------------- print server, serialport variant
\* What the operating system answers during one ensureConnected(): whether
\* the device node exists, the answer of blueutil --is-connected ("fail": the
\* command fails), the commands of reconnectBluetooth that fail, and whether
\* the node exists after the re-pair.
PortEnvs ==
  [device : BOOLEAN, connected : {"1", "0", "fail"},
   fail : SUBSET {"disconnect", "pair", "connect"}, after : BOOLEAN]

\* reconnectBluetooth: disconnect, unpair and inquiry inside try/catch, pair
\* and connect bare, then the device check.  The result is the commands
\* issued and the error thrown.
ReconnectBluetooth(env) ==
  IF "pair" \in env.fail
  THEN [ops |-> <<"disconnect", "unpair", "inquiry", "pair">>, thrown |-> ErrCmd]
  ELSE IF "connect" \in env.fail
  THEN [ops |-> <<"disconnect", "unpair", "inquiry", "pair", "connect">>,
        thrown |-> ErrCmd]
  ELSE [ops |-> <<"disconnect", "unpair", "inquiry", "pair", "connect">>,
        thrown |-> IF env.after THEN "" ELSE ErrNoDevRepair]

\* ensureConnected: the query when the node exists, the reconnect unless the
\* query answered "1".
EnsureConnected(env) ==
  IF env.device /\ env.connected = "1"
  THEN [ops |-> <<"is-connected">>, thrown |-> ""]
  ELSE LET r == ReconnectBluetooth(env) IN
       IF env.device THEN [r EXCEPT !.ops = <<"is-connected">> \o @] ELSE r

PortDone(c, res) == port' = [port EXCEPT ![c].pc = "done", ![c].res = res]
PortAt(c, pc) == port' = [port EXCEPT ![c].pc = pc]

\* POST /api/print once the body is parsed, up to the first await of
\* printReceipt: ensureConnected(), the template lookup, new SerialPort.
PortPrintRequest(c, template, hasText) ==
  /\ port[c].pc = "idle"
  /\ \A d \in 1..(c - 1) : port[d].pc # "idle"
  /\ \E env \in PortEnvs :
       LET e == EnsureConnected(env)
           p == [port EXCEPT ![c].template = template]
       IN port' =
            IF ~hasText
            THEN [p EXCEPT ![c].pc = "done", ![c].res = ErrText]
            ELSE IF e.thrown # ""
            THEN [p EXCEPT ![c].pc = "done", ![c].ops = e.ops, ![c].res = e.thrown]
            ELSE IF template \notin TEMPLATES
            THEN [p EXCEPT ![c].pc = "done", ![c].ops = e.ops, ![c].res = ErrTemplate]
            ELSE [p EXCEPT ![c].pc = "open", ![c].ops = e.ops]
  /\ UNCHANGED <<server, bt, status, sub, tts>>

\* openPort: the 'open' event resolves, an 'error' event rejects.
PortOpen(c, ok) ==
  /\ port[c].pc = "open"
  /\ IF ok THEN PortAt(c, "sleep1") ELSE PortDone(c, ErrPort)
  /\ UNCHANGED <<server, bt, status, sub, tts>>

\* The timers of sleep(500) and sleep(2000).
PortTimer(c) ==
  /\ port[c].pc \in {"sleep1", "sleep2"}
  /\ PortAt(c, IF port[c].pc = "sleep1" THEN "write" ELSE "close")
  /\ UNCHANGED <<server, bt, status, sub, tts>>

\* writeAndDrain: the write callback with an error rejects, drain resolves.
PortWrite(c, ok) ==
  /\ port[c].pc = "write"
  /\ IF ok THEN PortAt(c, "sleep2") ELSE PortDone(c, ErrPort)
  /\ UNCHANGED <<server, bt, status, sub, tts>>

\* port.close callback.
PortClose(c, ok) ==
  /\ port[c].pc = "close"
  /\ PortDone(c, IF ok THEN "ok" ELSE ErrPort)
  /\ UNCHANGED <<server, bt, status, sub, tts>>

\* GET /api/status of the serialport variant: the query and the device
\* check inside one try block, whose catch answers false for both.
PortStatusRequest ==
  /\ \E query \in {"1", "0", "fail"}, exists \in BOOLEAN :
       status' = [connected |-> query = "1",
                  device |-> IF query = "fail" THEN FALSE ELSE exists,
                  worker |-> FALSE, answered |-> TRUE,
                  query |-> query, exists |-> exists]
  /\ UNCHANGED <<server, bt, port, sub, tts>>

PortInit ==
  /\ InitServer
  /\ bt = BtIdle
  /\ status = NoStatus
  /\ port = PortIdle
  /\ sub = SubIdle
  /\ tts = TtsIdle

PortNext ==
  \/ \E c \in PortCalls, t \in TemplateInputs, x \in BOOLEAN : PortPrintRequest(c, t, x)
  \/ \E c \in PortCalls, ok \in BOOLEAN : PortOpen(c, ok)
  \/ \E c \in PortCalls : PortTimer(c)
  \/ \E c \in PortCalls, ok \in BOOLEAN : PortWrite(c, ok)
  \/ \E c \in PortCalls, ok \in BOOLEAN : PortClose(c, ok)
  \/ PortStatusRequest

PortSpec == PortInit /\ [][PortNext]_vars

\* ------------------------------------ print server, subprocess-per-job variant
\* printReceipt of call c is on the stack: every step of it is a blocking
\* execSync or execFileSync.
InPrint(c) ==
  sub.calls[c].pc \in {"check", "soft", "full", "print1", "recon", "print2"}

\* No callback is running.
StackFree == sub.keep = "idle" /\ \A c \in PortCalls : ~InPrint(c)

SubAt(c, pc, i) == sub' = [sub EXCEPT !.calls[c].pc = pc, !.calls[c].i = i]
SubDone(c, res) == sub' = [sub EXCEPT !.calls[c].pc = "done", !.calls[c].res = res]

\* POST /api/print arrives: the handler runs up to await parseBody(req).
SubRequest(c, template, hasText) ==
  /\ StackFree
  /\ sub.calls[c].pc = "idle"
  /\ \A d \in 1..(c - 1) : sub.calls[d].pc # "idle"
  /\ sub' = [sub EXCEPT !.calls[c].pc = "parsing", !.calls[c].template = template,
                        !.calls[c].hasText = hasText]
  /\ UNCHANGED <<server, bt, status, port, tts>>

\* The body is parsed: the handler continues into printReceipt, which looks
\* the template up and enters ensureConnected.
SubParsed(c) ==
  /\ StackFree
  /\ sub.calls[c].pc = "parsing"
  /\ IF ~sub.calls[c].hasText THEN SubDone(c, ErrText)
     ELSE IF sub.calls[c].template \notin TEMPLATES THEN SubDone(c, ErrTemplate)
     ELSE SubAt(c, "check", 0)
  /\ UNCHANGED <<server, bt, status, port, tts>>

\* ensureConnected: deviceExists() && isBluetoothConnected().
SubCheck(c, up) ==
  /\ sub.calls[c].pc = "check"
  /\ IF up THEN SubAt(c, "print1", 0) ELSE SubAt(c, "soft", 0)
  /\ UNCHANGED <<server, bt, status, port, tts>>

\* ensureConnected: one turn of the soft-connect loop; a failing connect is
\* caught.
SubSoft(c, ok, up) ==
  /\ sub.calls[c].pc = "soft"
  /\ IF ok /\ up THEN SubAt(c, "print1", 0)
     ELSE IF sub.calls[c].i + 1 < SoftTries THEN SubAt(c, "soft", sub.calls[c].i + 1)
     ELSE SubAt(c, "full", 0)
  /\ UNCHANGED <<server, bt, status, port, tts>>

\* ensureConnected: one turn of the full-reconnect loop; after the last one
\* it throws, which printReceipt catches.
SubFull(c, ok, up) ==
  /\ sub.calls[c].pc = "full"
  /\ IF ok /\ up THEN SubAt(c, "print1", 0)
     ELSE IF sub.calls[c].i + 1 < FullTries THEN SubAt(c, "full", sub.calls[c].i + 1)
     ELSE SubAt(c, "recon", 0)
  /\ UNCHANGED <<server, bt, status, port, tts>>

\* printViaSubprocess: in the try block a failure is caught, in the catch
\* block it ends the request.
SubPrint(c, ok) ==
  /\ sub.calls[c].pc \in {"print1", "print2"}
  /\ IF ok THEN SubDone(c, "ok")
     ELSE IF sub.calls[c].pc = "print1" THEN SubAt(c, "recon", 0)
     ELSE SubDone(c, ErrPrint)
  /\ UNCHANGED <<server, bt, status, port, tts>>

\* The catch block of printReceipt: reconnectBluetooth(), whose error ends
\* the request.
SubRecon(c, err) ==
  /\ sub.calls[c].pc = "recon"
  /\ IF err = "" THEN SubAt(c, "print2", 0) ELSE SubDone(c, err)
  /\ UNCHANGED <<server, bt, status, port, tts>>

\* A keepalive timer dispatched whatever else is running.
SubKeepaliveFire_Preempting ==
  /\ sub.keep = "idle"
  /\ sub' = [sub EXCEPT !.keep = "query", !.kops = <<>>, !.kans = "", !.kerr = ""]
  /\ UNCHANGED <<server, bt, status, port, tts>>

\* The setInterval callback is dispatched: the event loop runs it when no
\* other callback is running.  kops collects the blueutil commands of this
\* callback, kans the answer of the query, kerr the error it logs.
SubKeepaliveFire ==
  /\ StackFree
  /\ sub' = [sub EXCEPT !.keep = "query", !.kops = <<>>, !.kans = "", !.kerr = ""]
  /\ UNCHANGED <<server, bt, status, port, tts>>

\* Keepalive: isBluetoothConnected(): blueutil --is-connected answers "1",
\* something else, or fails ("fail"), which counts as not connected.
SubKeepaliveQuery(answer) ==
  /\ sub.keep = "query"
  /\ sub' = [sub EXCEPT !.keep = IF answer = "1" THEN "idle" ELSE "connect",
                        !.kops = Append(@, "is-connected"), !.kans = answer]
  /\ UNCHANGED <<server, bt, status, port, tts>>

\* A keepalive whose softConnect() is outside any try block.
SubKeepaliveConnect_NoCatch(ok) ==
  /\ sub.keep = "connect"
  /\ sub' = [sub EXCEPT !.keep = "idle", !.kops = Append(@, "connect"),
                        !.kdead = ~ok]
  /\ UNCHANGED <<server, bt, status, port, tts>>

\* Keepalive: softConnect() (blueutil --connect, then a sleep), its failure
\* caught and logged.
SubKeepaliveConnect(ok) ==
  /\ sub.keep = "connect"
  /\ sub' = [sub EXCEPT !.keep = "idle", !.kops = Append(@, "connect"),
                        !.kerr = IF ok THEN "" ELSE ErrCmd]
  /\ UNCHANGED <<server, bt, status, port, tts>>

SubInit ==
  /\ InitServer
  /\ bt = BtIdle
  /\ status = NoStatus
  /\ port = PortIdle
  /\ sub = SubIdle
  /\ tts = TtsIdle

SubNext ==
  \/ \E c \in PortCalls, t \in TemplateInputs, x \in BOOLEAN : SubRequest(c, t, x)
  \/ \E c \in PortCalls : SubParsed(c)
  \/ \E c \in PortCalls, up \in BOOLEAN : SubCheck(c, up)
  \/ \E c \in PortCalls, ok \in BOOLEAN, up \in BOOLEAN : SubSoft(c, ok, up)
  \/ \E c \in PortCalls, ok \in BOOLEAN, up \in BOOLEAN : SubFull(c, ok, up)
  \/ \E c \in PortCalls, ok \in BOOLEAN : SubPrint(c, ok)
  \/ \E c \in PortCalls, err \in {"", ErrCmd, ErrNoDevRepair} : SubRecon(c, err)
  \/ SubKeepaliveFire
  \/ \E answer \in {"1", "0", "fail"} : SubKeepaliveQuery(answer)
  \/ \E ok \in BOOLEAN : SubKeepaliveConnect(ok)

SubSpec == SubInit /\ [][SubNext]_vars

\* ------------------------------------ presentation server: generateTTS
MaxChars == 4
Alphabet == {"a", " ", "\n"}
Durations == {1, 2}
Whitespace == {" ", "\n"}

RECURSIVE SumTo(_, _)
SumTo(d, k) == IF k = 0 THEN 0 ELSE SumTo(d, k - 1) + d[k]

\* The alignment objects the speech API may answer with: up to MaxChars
\* characters, character i starting where character i-1 ended.
Alignments ==
  UNION { { [characters |-> c,
             character_start_times_seconds |-> [i \in 1..n |-> SumTo(d, i - 1)],
             character_end_times_seconds |-> [i \in 1..n |-> SumTo(d, i)]] :
            c \in [1..n -> Alphabet], d \in [1..n -> Durations] } :
          n \in 0..MaxChars }

RECURSIVE TrimStart(_)
TrimStart(w) ==
  IF w # <<>> /\ Head(w) \in Whitespace THEN TrimStart(Tail(w)) ELSE w

RECURSIVE TrimEnd(_)
TrimEnd(w) ==
  IF w # <<>> /\ w[Len(w)] \in Whitespace
  THEN TrimEnd(SubSeq(w, 1, Len(w) - 1)) ELSE w

\* String.prototype.trim
Trim(w) == TrimEnd(TrimStart(w))

\* The word's end as the code reads it: `ends[i - 1] || ends[i]`, the right
\* operand taken when the left one is undefined (i is the first index) or 0.
WordEnd(a, i) ==
  IF i - 1 >= 1 /\ a.character_end_times_seconds[i - 1] # 0
  THEN a.character_end_times_seconds[i - 1]
  ELSE a.character_end_times_seconds[i]

\* The for loop of the conversion from iteration i on (indexes from 1).
RECURSIVE WordLoop(_, _, _, _, _)
WordLoop(a, i, words, wordStart, currentWord) ==
  IF i > Len(a.characters) THEN words
  ELSE IF a.characters[i] = " " \/ i = Len(a.characters)
  THEN LET cw == IF i = Len(a.characters) /\ a.characters[i] # " "
                 THEN Append(currentWord, a.characters[i])
                 ELSE currentWord
           pushed == IF Trim(cw) # <<>>
                     THEN Append(words,
                            [word |-> cw,
                             start |-> a.character_start_times_seconds[wordStart],
                             end |-> WordEnd(a, i)])
                     ELSE words
       IN WordLoop(a, i + 1, pushed, i + 1, <<>>)
  ELSE WordLoop(a, i + 1, words, wordStart, Append(currentWord, a.characters[i]))

\* generateTTS up to its first await: the request to the speech API is sent.
GenerateTTS ==
  /\ tts.phase = "idle"
  /\ tts' = [tts EXCEPT !.phase = "fetch"]
  /\ UNCHANGED <<server, bt, status, port, sub>>

\* The response arrives; a status that is not ok makes generateTTS throw.
TtsResponse(ok) ==
  /\ tts.phase = "fetch"
  /\ tts' = IF ok THEN [tts EXCEPT !.phase = "json"]
            ELSE [tts EXCEPT !.phase = "failed", !.error = ErrApi]
  /\ UNCHANGED <<server, bt, status, port, sub>>

\* The body is parsed and the character timings are converted to words.
TtsConvert ==
  /\ tts.phase = "json"
  /\ tts' = [tts EXCEPT !.phase = "done",
                        !.words = WordLoop(tts.alignment, 1, <<>>, 1, <<>>)]
  /\ UNCHANGED <<server, bt, status, port, sub>>

TtsInit ==
  /\ InitServer
  /\ bt = BtIdle
  /\ status = NoStatus
  /\ port = PortIdle
  /\ sub = SubIdle
  /\ tts \in {[TtsIdle EXCEPT !.alignment = a] : a \in Alignments}

TtsNext ==
  \/ GenerateTTS
  \/ \E ok \in BOOLEAN : TtsResponse(ok)
  \/ TtsConvert

TtsSpec == TtsInit /\ [][TtsNext]_vars

\* C11: scenario C.  A print call that starts without a Ready worker and in
\* which every btReset ends with the device node still absent is tried
\* twice (one reset per attempt), spawns no worker, submits nothing and fails
\* with the error that names the serial device.
C11_ScenarioC ==
  \A c \in Requests :
    ( /\ calls[c].kind = "print"
      /\ ~calls[c].fromReady
      /\ calls[c].pc = "done"
      /\ calls[c].res # ErrTemplate
      /\ calls[c].noDev = calls[c].resets )
    => ( /\ calls[c].res = ErrNoDev
         /\ calls[c].firstErr = ErrNoDev
         /\ calls[c].recov = 1
         /\ calls[c].resets = 2
         /\ calls[c].spawns = 0
         /\ calls[c].submits = 0 )

\* A print call has ended after two resets that both found no device node.
C11_Witness ==
  \E c \in Requests :
    /\ calls[c].kind = "print"
    /\ calls[c].pc = "done"
    /\ calls[c].noDev = 2
    /\ calls[c].resets = 2
    /\ calls[c].res = ErrNoDev
    /\ calls[c].spawns = 0

\* C12: scenario A.  A print call that starts with no worker (handle null,
\* flag false, the earlier worker gone on its own and nothing ever killed)
\* and meets no fault does one reset, one spawn and one submit, makes no
\* recovery attempt and succeeds.
C12_ScenarioA ==
  \A c \in Requests :
    ( /\ calls[c].kind = "print"
      /\ calls[c].fromAbsent
      /\ calls[c].pc = "done"
      /\ calls[c].res # ErrTemplate
      /\ faults = 1
      /\ \A w \in Workers : ~killed[w] )
    => ( /\ calls[c].res = "ok"
         /\ calls[c].resets = 1
         /\ calls[c].spawns = 1
         /\ calls[c].submits = 1
         /\ calls[c].recov = 0 )

\* The boot worker died on its own, then a print call reset, spawned the
\* second worker, submitted one job and succeeded on its OK line.
C12_Witness ==
  \E c \in Requests :
    /\ calls[c].kind = "print"
    /\ calls[c].fromAbsent
    /\ calls[c].pc = "done"
    /\ calls[c].res = "ok"
    /\ calls[c].resets = 1
    /\ calls[c].spawns = 1
    /\ calls[c].submits = 1
    /\ calls[c].j # 0
    /\ wstate[1] = "reaped"
    /\ wstate[2] = "running"
    /\ faults = 1

BtFailedAt(k) == BtCommandOf(bt.ops[k]) \in bt.env.fail

C14_StatusChangesNothing ==
  [][ status' # status =>
        UNCHANGED <<printWorker, printWorkerReady, wstate, killed, stdout, stdin,
                    startTimer, startPromise, spawned, faults, jobs, njobs,
                    calls, micro, crashed, bt>> ]_vars

\* A query answered "device absent, worker ready" while the supervisor is
\* Ready, which it still is.
C14_Witness ==
  /\ status.answered
  /\ status.worker
  /\ ~status.device
  /\ ~status.connected
  /\ printWorker # 0
  /\ printWorkerReady

\* C15: POST /api/reset never takes the fast path: it runs one reset and
\* spawns one worker, and when it answers ok that worker has printed READY,
\* is the current handle and the supervisor is Ready.
C15_ForceResetLeavesReady ==
  \A c \in Requests :
    (calls[c].kind = "reset" /\ calls[c].pc = "done" /\ calls[c].res = "ok")
    => /\ calls[c].fastPaths = 0
       /\ calls[c].resets = 1
       /\ calls[c].spawns = 1
       /\ calls[c].w # 0
       /\ ReadyEmitted(wstate[calls[c].w])
       /\ printWorkerReady
       /\ printWorker = calls[c].w

\* C16 (serialport variant): a print with an unknown template fails with
\* 'Unknown template' before any Bluetooth command has been issued.
C16_UnknownTemplateFirst ==
  \A c \in PortCalls :
    (port[c].pc = "done" /\ port[c].template \notin TEMPLATES
     /\ port[c].res # ErrText)
    => (port[c].res = ErrTemplate /\ port[c].ops = <<>>)

\* The first submit of call c awaits its acknowledgement from worker w, which
\* was Ready when the job was written and has not been killed.
InFlight(c, w) ==
  /\ calls[c].kind = "print"
  /\ calls[c].pc = "send1"
  /\ calls[c].j # 0
  /\ jobs[calls[c].j].st = "pending"
  /\ jobs[calls[c].j].w = w
  /\ jobs[calls[c].j].wReady
  /\ ~killed[w]

\* C17: when the worker exits on its own while a job awaits its
\* acknowledgement, the 'exit' event leaves the supervisor Absent with the
\* flag cleared; after it the submit does not succeed and the server lives
\* on to settle it; and the call leaves the submit only into its one
\* recovery, which resets and spawns a fresh worker or fails in the reset.
C17_ExitMidJobThenRetry ==
  [][ \A c \in Requests, w \in Workers : InFlight(c, w) =>
        /\ (Dead(wstate[w]) /\ wstate'[w] = "reaped")
             => (printWorker' = 0 /\ ~printWorkerReady')
        /\ wstate[w] = "reaped" =>
             /\ jobs'[calls[c].j].st # "ok"
             /\ ~crashed'
             /\ calls'[c].pc # "send1"
                  => ( /\ calls'[c].recov = 1
                       /\ calls'[c].resets > calls[c].resets
                       /\ \/ /\ calls'[c].pc = "start2"
                             /\ spawned' = spawned + 1
                             /\ printWorker' = spawned'
                          \/ /\ calls'[c].pc = "done"
                             /\ calls'[c].res \in {ErrCmd, ErrNoDev, ErrNotAvail}
                             /\ spawned' = spawned ) ]_vars

\* C18: in the subprocess-per-job server the keepalive callback performs no
\* Bluetooth operation while a printReceipt call is in progress: no step of
\* the keepalive falls between two steps of a printReceipt.
C18_NoKeepaliveInsidePrint ==
  [][ (sub'.keep # sub.keep \/ sub.keep # "idle" \/ sub'.keep # "idle")
      => \A c \in PortCalls : ~InPrint(c) ]_vars

\* The keepalive is reconnecting while one request is still being parsed and
\* an earlier one has been through the whole of printReceipt.
C18_Witness ==
  /\ sub.keep = "connect"
  /\ sub.calls[1].pc = "done"
  /\ sub.calls[1].res = ErrPrint
  /\ sub.calls[2].pc = "parsing"

\* C19: one OK or ERR line settles at most one submitted job: no step of the
\* server resolves or rejects two pending submits.
C19_OneAckOneJob ==
  [][ Cardinality({j \in Jobs : jobs[j].st = "pending" /\ jobs'[j].st # "pending"})
        <= 1 ]_vars

\* C20: every spawn happens in a startWorker call that did not take the fast
\* path and that, in the same callback, has terminated the handle it found,
\* completed a btReset and seen the device node; the new worker becomes the
\* current handle.  No call has spawned more workers than it has seen the
\* device node present.
C20_SpawnAfterResetAndDeviceCheck ==
  [][ /\ \A w \in Workers :
           (wstate[w] = "none" /\ wstate'[w] # "none") =>
             \E c \in Calls :
               /\ calls'[c].spawns = calls[c].spawns + 1
               /\ calls'[c].resets > calls[c].resets
               /\ calls'[c].devOk = calls[c].devOk + 1
               /\ calls'[c].fastPaths = calls[c].fastPaths
               /\ printWorker # 0 => (killed'[printWorker] /\ ~Alive(wstate'[printWorker]))
               /\ printWorker' = w
               /\ ~printWorkerReady'
      /\ \A c \in Calls : calls'[c].spawns <= calls'[c].devOk ]_vars

\* A print call whose first startWorker found the device node absent after
\* its reset and spawned nothing, and whose recovery has reset again, seen
\* the node and spawned.
C20_Witness ==
  \E c \in Requests :
    /\ calls[c].kind = "print"
    /\ calls[c].pc = "start2"
    /\ calls[c].firstErr = ErrNotAvail
    /\ calls[c].resets = 3
    /\ calls[c].devOk = 1
    /\ calls[c].spawns = 1
    /\ printWorker = calls[c].w
    /\ wstate[calls[c].w] = "booting"

\* The number of times btReset has issued command op so far.
BtCount(op) == Cardinality({k \in 1..Len(bt.ops) : bt.ops[k] = op})

\* C21 (as the code has it): btReset polls in up to PollRounds rounds of
\* PollsPerRound polls; every round that ends without the device node is
\* followed by one disconnect/connect cycle, the last round included, and
\* btReset fails with 'did not appear' only after PollRounds rounds, PollRounds
\* cycles and a last check have all found the node absent.
C21_RoundsAndCycles ==
  /\ BtCount("disconnect2") <= PollRounds
  /\ BtCount("reconnect") <= BtCount("disconnect2")
  /\ BtCount("disconnect2") * PollsPerRound <= bt.polls
  /\ bt.polls <= PollRounds * PollsPerRound
  /\ (bt.pc = "thrown" /\ bt.res = ErrNoDev) =>
       /\ BtCount("disconnect2") = PollRounds
       /\ BtCount("reconnect") = PollRounds
       /\ bt.polls = PollRounds * PollsPerRound
       /\ \A k \in 0..bt.polls : ~DeviceAt(bt.env, k)
  /\ (bt.pc = "returned" /\ BtCount("disconnect2") < PollRounds) =>
       /\ DeviceAt(bt.env, bt.polls - 1)
       /\ BtCount("reconnect") = BtCount("disconnect2")
       /\ BtCount("disconnect2") = (bt.polls - 1) \div PollsPerRound

\* The node never appeared: three rounds, three cycles, then the failure.
C21_Witness ==
  /\ bt.pc = "thrown"
  /\ bt.res = ErrNoDev
  /\ bt.env.fail = {}
  /\ bt.polls = PollRounds * PollsPerRound
  /\ BtCount("disconnect2") = PollRounds
  /\ BtCount("reconnect") = PollRounds

\* C21 as stated: once the first round has ended without the node, btReset
\* does exactly one disconnect/connect cycle and one more round before it
\* returns or fails.
C21_OneExtraCycle ==
  (bt.pc \in {"returned", "thrown"} /\ bt.res # ErrCmd
   /\ bt.polls >= PollsPerRound /\ BtCount("disconnect2") >= 1)
  => /\ BtCount("disconnect2") = 1
     /\ BtCount("reconnect") = 1
     /\ bt.polls <= 2 * PollsPerRound

\* C22: a printer initialisation that fails at boot (a reset command fails,
\* the device node is absent after the reset, the worker does not start) is
\* only logged: the server process is still running when the boot start has
\* ended with an error.
C22_BootFailureOnlyLogged ==
  (calls[BootCall].kind = "boot" /\ calls[BootCall].pc = "done"
   /\ calls[BootCall].res # "ok")
  => ~crashed

\* C23: the keepalive callback issues the connection query and, unless the
\* answer is "1", one connect, and no other command; it issues nothing more
\* when the link is connected; a failed connect is logged, the callback ends
\* normally and nothing is thrown out of it.
C23_KeepaliveOnlyConnects ==
  /\ \A k \in 1..Len(sub.kops) : sub.kops[k] \in {"is-connected", "connect"}
  /\ Cardinality({k \in 1..Len(sub.kops) : sub.kops[k] = "connect"}) <= 1
  /\ (sub.keep = "idle" /\ sub.kans = "1") => sub.kops = <<"is-connected">>
  /\ (sub.keep = "idle" /\ sub.kans \in {"0", "fail"})
       => sub.kops = <<"is-connected", "connect">>
  /\ sub.kerr # "" => (sub.keep = "idle" /\ sub.kops = <<"is-connected", "connect">>)
  /\ ~sub.kdead

\* The query failed, the connect failed too, and the callback has returned
\* with the error logged.
C23_Witness ==
  /\ sub.keep = "idle"
  /\ sub.kans = "fail"
  /\ sub.kops = <<"is-connected", "connect">>
  /\ sub.kerr = ErrCmd
  /\ ~sub.kdead

\* The commands of btReset before its polling loop, in the order of the
\* source.
BtOrder == <<"disconnect", "unpair", "power0", "power1", "pair", "connect">>

\* C24: btReset issues disconnect, unpair, power off, power on, pair and
\* connect in this order, polls the device node only after all six, issues
\* afterwards only the disconnect and connect of the polling loop, in turn,
\* and returns normally only when its last check found the device node.
C24_FixedOrderThenPoll ==
  /\ \A k \in 1..Len(bt.ops) :
       IF k <= Len(BtOrder) THEN bt.ops[k] = BtOrder[k]
       ELSE bt.ops[k] = IF (k - Len(BtOrder)) % 2 = 1 THEN "disconnect2"
                        ELSE "reconnect"
  /\ (bt.polls > 0 \/ bt.pc \in {"poll", "final", "returned"})
       => SubSeq(bt.ops, 1, Len(BtOrder)) = BtOrder
  /\ bt.pc = "returned" =>
       /\ bt.res = ""
       /\ bt.env.fail \cap {"power0", "power1", "pair", "connect"} = {}
       /\ \E k \in 0..bt.polls :
            /\ DeviceAt(bt.env, k)
            /\ k = IF Len(bt.ops) = Len(BtOrder) + 2 * PollRounds
                   THEN bt.polls ELSE bt.polls - 1

\* A reset that returned at its first poll although disconnect and unpair
\* failed: the six commands, one poll.
C24_Witness ==
  /\ bt.pc = "returned"
  /\ bt.env.fail = {"disconnect", "unpair"}
  /\ bt.ops = BtOrder
  /\ bt.polls = 1

\* C25 (serialport variant): the device field of a status answer is the
\* result of the device check made for that query, whatever the Bluetooth
\* query did; a failed query is answered connected = false.
C25_DeviceFieldIsDeviceCheck ==
  status.answered =>
    /\ status.device = status.exists
    /\ status.query # "1" => ~status.connected

\* C26: whenever printWorkerReady is true, printWorker is a handle, that
\* worker has not been killed, it has printed READY itself, and it is running
\* (or has just exited and its 'exit' event is still to be delivered).
C26_FlagAndHandleAgree ==
  printWorkerReady =>
    /\ printWorker # 0
    /\ ~killed[printWorker]
    /\ wstate[printWorker] \in {"running", "dead"}

\* C27: the 'exit' event of a worker that was killed and replaced changes
\* neither printWorker, which still refers to the successor, nor
\* printWorkerReady.  Stated for the workers that had printed READY when
\* they were discarded, which the startup timer does not kill.
C27_StaleExitChangesNothing ==
  [][ \A w \in Workers :
        ( /\ wstate[w] = "dead"
          /\ wstate'[w] = "reaped"
          /\ killed[w]
          /\ printWorker # 0
          /\ printWorker # w )
        => (printWorker' = printWorker /\ printWorkerReady' = printWorkerReady) ]_vars

\* C28: when a newer worker has replaced worker w as the current handle,
\* the startup timer of w's startWorker neither kills nor clears the newer
\* handle and leaves w's start promise settled, and the READY line of w does
\* not change printWorkerReady.
C28_SupersededStartActsOnOwnWorker ==
  [][ \A w \in Workers : (printWorker # 0 /\ printWorker # w) =>
        /\ (startTimer[w] /\ ~startTimer'[w] /\ stdout'[w] = stdout[w])
             => ( /\ printWorker' = printWorker
                  /\ killed'[printWorker] = killed[printWorker]
                  /\ startPromise'[w] # "pending" )
        /\ ( /\ stdout[w] # <<>>
             /\ Head(stdout[w]).t = "READY"
             /\ stdout'[w] = Tail(stdout[w]) )
             => printWorkerReady' = printWorkerReady ]_vars

\* The words of the text: the maximal runs of characters other than the
\* space that hold at least one character that is not white space, as pairs
\* <<first index, last index>>.
WordRuns(a) ==
  LET n == Len(a.characters) IN
  { r \in (1..n) \X (1..n) :
      /\ r[1] <= r[2]
      /\ \A k \in r[1]..r[2] : a.characters[k] # " "
      /\ \E k \in r[1]..r[2] : a.characters[k] \notin Whitespace
      /\ (r[1] = 1 \/ a.characters[r[1] - 1] = " ")
      /\ (r[2] = n \/ a.characters[r[2] + 1] = " ") }

NthRun(a, k) ==
  CHOOSE r \in WordRuns(a) :
    Cardinality({q \in WordRuns(a) : q[1] < r[1]}) = k - 1

\* C29: once generateTTS has converted the alignment, it has emitted one word
\* per word of the text, in order, each with the start time of its first
\* character and the end time of its last character.
C29_WordTimesSpanFirstToLastChar ==
  tts.phase = "done" =>
    /\ Len(tts.words) = Cardinality(WordRuns(tts.alignment))
    /\ \A k \in 1..Len(tts.words) :
         LET r == NthRun(tts.alignment, k) IN
         /\ tts.words[k].start = tts.alignment.character_start_times_seconds[r[1]]
         /\ tts.words[k].end = tts.alignment.character_end_times_seconds[r[2]]

====
